---- MODULE Spec2Model ----
(***************************************************************************)
(* Model of crypto_cli_tool: the Caesar, Vigenere and Playfair ciphers     *)
(* (src/ciphers) and the command-line front end (src/main.rs).             *)
(*                                                                         *)
(* A char is its Unicode scalar value; a text (String / &str) is a         *)
(* sequence of chars.  A panic of the program is the value Panic (for a    *)
(* text), NoChar (for a char or a number) or NoIdx (for a coordinate).     *)
(***************************************************************************)
EXTENDS Integers, Sequences, FiniteSets, TLC

VARIABLES
    overflow_checks,  \* build profile: TRUE = arithmetic overflow panics (debug), FALSE = wraps (release)
    cipher,           \* the cipher instance constructed last
    op,               \* the operation called last
    input,            \* its text argument
    output,           \* what it returned, or Panic
    plain,            \* when input is the output of an encrypt call: that call's plaintext
    pc,               \* main: position in the run
    args              \* main: the command line

vars == <<overflow_checks, cipher, op, input, output, plain, pc, args>>

-----------------------------------------------------------------------------
(* Bounds of the model *)

MaxLen == 3       \* longest input text
MaxKeyLen == 2    \* longest text key

-----------------------------------------------------------------------------
(* chars *)

ch_a == 97
ch_z == 122
ch_A == 65
ch_Z == 90
ch_J == 74
ch_I == 73
ch_X == 88
ch_x == 120
ch_space == 32
ch_plus == 43
ch_minus == 45
ch_0 == 48
ch_9 == 57

I32Max == 2147483647
I32Min == (-I32Max) - 1

Panic == <<-1>>
NoChar == -1
NoIdx == <<-1, -1>>
NoText == <<-2>>

is_ascii_lowercase(c) == c >= ch_a /\ c <= ch_z

is_ascii_uppercase(c) == c >= ch_A /\ c <= ch_Z

is_ascii_alphabetic(c) == is_ascii_lowercase(c) \/ is_ascii_uppercase(c)

to_ascii_uppercase(c) == IF is_ascii_lowercase(c) THEN c - 32 ELSE c

to_ascii_lowercase(c) == IF is_ascii_uppercase(c) THEN c + 32 ELSE c

str_to_ascii_uppercase(s) == [i \in 1..Len(s) |-> to_ascii_uppercase(s[i])]

str_to_ascii_lowercase(s) == [i \in 1..Len(s) |-> to_ascii_lowercase(s[i])]

\* char::len_utf8
len_utf8(c) == IF c < 128 THEN 1 ELSE IF c < 2048 THEN 2 ELSE IF c < 65536 THEN 3 ELSE 4

\* str::len: the length in bytes
RECURSIVE str_len(_)
str_len(s) == IF s = <<>> THEN 0 ELSE len_utf8(Head(s)) + str_len(Tail(s))

\* s.chars().nth(n), n counted from 0; NoChar is None
chars_nth(s, n) == IF n < Len(s) THEN s[n + 1] ELSE NoChar

\* `c as u8`
as_u8(c) == c % 256

\* u8 + u8
u8_add(a, b, checks) ==
    IF a = NoChar \/ b = NoChar THEN NoChar
    ELSE IF a + b > 255 THEN (IF checks THEN NoChar ELSE (a + b) % 256)
    ELSE a + b

\* u8 - u8
u8_sub(a, b, checks) ==
    IF a = NoChar \/ b = NoChar THEN NoChar
    ELSE IF a - b < 0 THEN (IF checks THEN NoChar ELSE (a - b) % 256)
    ELSE a - b

\* the % of Rust on signed integers: the remainder of the truncated division
rust_rem(a, n) == IF a >= 0 THEN a % n ELSE 0 - ((0 - a) % n)

\* rem_euclid with a positive modulus
rem_euclid(a, n) == a % n

\* .collect() of a mapped iterator: a panic in one element is a panic of the call
collect(s) == IF \E i \in 1..Len(s) : s[i] = NoChar THEN Panic ELSE s

-----------------------------------------------------------------------------
(* ciphers/caesar.rs *)

caesar_encrypt_char(c, shift) ==
    IF is_ascii_alphabetic(c)
    THEN LET base == IF is_ascii_lowercase(c) THEN ch_a ELSE ch_A
             offset == as_u8(c) - base
         IN  ((offset + shift) % 26) + base
    ELSE c

caesar_encrypt(key, plaintext) ==
    LET shift == as_u8(rem_euclid(key, 26))
    IN  collect([i \in 1..Len(plaintext) |-> caesar_encrypt_char(plaintext[i], shift)])

\* -self.key on an i32: the negation of i32::MIN overflows, and wraps to i32::MIN
neg_overflows(key) == key = I32Min

neg_i32(key) == IF neg_overflows(key) THEN I32Min ELSE 0 - key

caesar_decrypt(key, ciphertext, checks) ==
    IF neg_overflows(key) /\ checks
    THEN Panic
    ELSE caesar_encrypt(neg_i32(key), ciphertext)

-----------------------------------------------------------------------------
(* ciphers/vigenere.rs *)

\* VigenereCipher::new
VigenereCipher_new(key) == str_to_ascii_lowercase(key)

\* direction is "Encrypt" or "Decrypt"; NoChar when the arithmetic panics
shift_char(base_char, key_char, direction, checks) ==
    LET lower == is_ascii_lowercase(base_char)
        base_char_value == u8_sub(as_u8(to_ascii_lowercase(base_char)), ch_a, checks)
        key_char_value == u8_sub(as_u8(key_char), ch_a, checks)
        sum == u8_add(base_char_value, key_char_value, checks)
        result ==
            IF base_char_value = NoChar \/ key_char_value = NoChar THEN NoChar
            ELSE IF direction = "Encrypt"
            THEN (IF sum = NoChar THEN NoChar ELSE u8_add(sum % 26, ch_a, checks))
            ELSE as_u8(rem_euclid(base_char_value - key_char_value, 26) + ch_a)
    IN  IF result = NoChar THEN NoChar
        ELSE IF lower THEN result ELSE to_ascii_uppercase(result)

\* the closure of encrypt / decrypt for the char c at index i (from 0)
vigenere_map_char(key, i, c, direction, checks) ==
    IF is_ascii_alphabetic(c)
    THEN IF str_len(key) = 0
         THEN NoChar     \* i % 0: remainder with a divisor of zero
         ELSE LET key_char == chars_nth(key, i % str_len(key))
              IN  IF key_char = NoChar THEN NoChar     \* unwrap of None
                  ELSE shift_char(c, key_char, direction, checks)
    ELSE c

vigenere_encrypt(key, plaintext, checks) ==
    collect([i \in 1..Len(plaintext) |->
                vigenere_map_char(key, i - 1, plaintext[i], "Encrypt", checks)])

\* vigenere_decrypt with an index that only the letters advance
vigenere_decrypt_letter_index(key, ciphertext, checks) ==
    collect([i \in 1..Len(ciphertext) |->
                vigenere_map_char(key,
                                  Cardinality({j \in 1..(i - 1) :
                                                  is_ascii_alphabetic(ciphertext[j])}),
                                  ciphertext[i], "Decrypt", checks)])

vigenere_decrypt(key, ciphertext, checks) ==
    collect([i \in 1..Len(ciphertext) |->
                vigenere_map_char(key, i - 1, ciphertext[i], "Decrypt", checks)])

-----------------------------------------------------------------------------
(* ciphers/playfair.rs *)

RECURSIVE clean_key_loop(_, _)
clean_key_loop(rest, acc) ==
    IF rest = <<>> THEN acc
    ELSE LET c == Head(rest)
         IN  IF c = ch_J THEN clean_key_loop(Tail(rest), acc)
             ELSE IF \E i \in 1..Len(acc) : acc[i] = c
                  THEN clean_key_loop(Tail(rest), acc)
                  ELSE clean_key_loop(Tail(rest), Append(acc, c))

\* clean_key_on_new, on the empty self.key of new
clean_key_on_new(key) == clean_key_loop(str_to_ascii_uppercase(key), <<>>)

\* ('A'..='Z').filter(|&c| c != 'J' && !seen.contains(&c)), from the letter `from` on
RECURSIVE remaining_letters(_, _)
remaining_letters(from, seen) ==
    IF from > ch_Z THEN <<>>
    ELSE IF from # ch_J /\ from \notin seen
         THEN <<from>> \o remaining_letters(from + 1, seen)
         ELSE remaining_letters(from + 1, seen)

\* generate_matrix: the matrix of the cleaned key, or Panic when a write falls
\* outside the 5x5 array
generate_matrix(key) ==
    LET seen == {key[i] : i \in 1..Len(key)}
        cells == key \o remaining_letters(ch_A, seen)
    IN  IF Len(cells) > 25 THEN Panic
        ELSE [r \in 0..4 |-> [c \in 0..4 |->
                 IF 5 * r + c + 1 <= Len(cells) THEN cells[5 * r + c + 1] ELSE ch_space]]

\* get_char_indexes: <<row, col>> of the first cell, row by row, holding the
\* target; NoIdx is the panic
get_char_indexes(matrix, target0) ==
    LET target == IF target0 = ch_J THEN ch_X ELSE target0
        hits == {rc \in (0..4) \X (0..4) : matrix[rc[1]][rc[2]] = target}
    IN  IF hits = {} THEN NoIdx
        ELSE CHOOSE rc \in hits :
                \A o \in hits : rc[1] < o[1] \/ (rc[1] = o[1] /\ rc[2] <= o[2])

\* translation_of with the two signs exchanged
translation_of_exchanged(direction) == IF direction = "Encrypt" THEN -1 ELSE 1

translation_of(direction) == IF direction = "Encrypt" THEN 1 ELSE -1

\* wrap_index with the absolute value taken in place of the + 5
wrap_index_abs(index, translation) ==
    IF index + translation < 0
    THEN rust_rem(0 - (index + translation), 5)
    ELSE rust_rem(index + translation, 5)

\* (((index as i8 + translation) % 5 + 5) % 5) as usize
wrap_index(index, translation) == rust_rem(rust_rem(index + translation, 5) + 5, 5)

\* swap_chars: the pair of substituted chars, or Panic
swap_chars(matrix, primary_char, secondary_char0, direction) ==
    LET secondary_char == IF primary_char = secondary_char0 THEN ch_X ELSE secondary_char0
        p == get_char_indexes(matrix, primary_char)
        s == get_char_indexes(matrix, secondary_char)
        translation == translation_of(direction)
    IN  IF p = NoIdx \/ s = NoIdx THEN Panic
        ELSE IF p[1] = s[1]
        THEN <<matrix[p[1]][wrap_index(p[2], translation)],
               matrix[s[1]][wrap_index(s[2], translation)]>>
        ELSE IF p[2] = s[2]
        THEN <<matrix[wrap_index(p[1], translation)][p[2]],
               matrix[wrap_index(s[1], translation)][s[2]]>>
        ELSE <<matrix[p[1]][s[2]], matrix[s[1]][p[2]]>>

\* pad_odd without the push
pad_odd_missing(text) == text

\* the padding of encrypt and decrypt: push('x') when len() is odd
pad_odd(text) == IF str_len(text) % 2 # 0 THEN Append(text, ch_x) ELSE text

\* the loop of encrypt from index i on: for i in (0..end).step_by(2)
RECURSIVE playfair_encrypt_loop(_, _, _, _)
playfair_encrypt_loop(matrix, plaintext_string, i, end) ==
    IF i >= end THEN <<>>
    ELSE LET primary_plaintext_char == chars_nth(plaintext_string, i)
             secondary_plaintext_char == chars_nth(plaintext_string, i + 1)
         IN  IF primary_plaintext_char = NoChar \/ secondary_plaintext_char = NoChar
             THEN Panic     \* unwrap of None
             ELSE LET swapped == swap_chars(matrix,
                                            to_ascii_uppercase(primary_plaintext_char),
                                            to_ascii_uppercase(secondary_plaintext_char),
                                            "Encrypt")
                  IN  IF swapped = Panic THEN Panic
                      ELSE LET primary_ciphertext_char ==
                                   IF is_ascii_uppercase(primary_plaintext_char)
                                   THEN swapped[1] ELSE to_ascii_lowercase(swapped[1])
                               secondary_ciphertext_char ==
                                   IF is_ascii_uppercase(secondary_plaintext_char)
                                   THEN swapped[2] ELSE to_ascii_lowercase(swapped[2])
                               rest == playfair_encrypt_loop(matrix, plaintext_string, i + 2, end)
                           IN  IF rest = Panic THEN Panic
                               ELSE <<primary_ciphertext_char, secondary_ciphertext_char>> \o rest

\* the loop runs over 0..plaintext.len(), the length before the padding
playfair_encrypt(matrix, plaintext) ==
    playfair_encrypt_loop(matrix, pad_odd(plaintext), 0, str_len(plaintext))

\* the loop of decrypt from index i on
RECURSIVE playfair_decrypt_loop(_, _, _, _)
playfair_decrypt_loop(matrix, ciphertext_string, i, end) ==
    IF i >= end THEN <<>>
    ELSE LET primary == chars_nth(ciphertext_string, i)
             secondary == chars_nth(ciphertext_string, i + 1)
         IN  IF primary = NoChar \/ secondary = NoChar
             THEN Panic     \* unwrap of None
             ELSE LET swapped == swap_chars(matrix, primary, secondary, "Decrypt")
                      rest == playfair_decrypt_loop(matrix, ciphertext_string, i + 2, end)
                  IN  IF swapped = Panic \/ rest = Panic THEN Panic
                      ELSE swapped \o rest

\* the loop runs over 0..ciphertext_string.len(), the length after the padding
playfair_decrypt(matrix, ciphertext) ==
    LET ciphertext_string == pad_odd(ciphertext)
    IN  playfair_decrypt_loop(matrix, ciphertext_string, 0, str_len(ciphertext_string))

-----------------------------------------------------------------------------
(* The Cipher trait: dispatch over the three implementations *)

NoMatrix == <<>>
NoCipher == [kind |-> "none", ikey |-> 0, key |-> <<>>, matrix |-> NoMatrix]

CaesarCipher(key) == [kind |-> "caesar", ikey |-> key, key |-> <<>>, matrix |-> NoMatrix]

VigenereCipher(key) ==
    [kind |-> "vigenere", ikey |-> 0, key |-> VigenereCipher_new(key), matrix |-> NoMatrix]

\* PlayfairCipher::new; NoCipher when generate_matrix panics
PlayfairCipher_new(key) ==
    LET cleaned == clean_key_on_new(key)
        matrix == generate_matrix(cleaned)
    IN  IF matrix = Panic THEN NoCipher
        ELSE [kind |-> "playfair", ikey |-> 0, key |-> cleaned, matrix |-> matrix]

Cipher_encrypt(self, plaintext, checks) ==
    IF self.kind = "caesar" THEN caesar_encrypt(self.ikey, plaintext)
    ELSE IF self.kind = "vigenere" THEN vigenere_encrypt(self.key, plaintext, checks)
    ELSE playfair_encrypt(self.matrix, plaintext)

Cipher_decrypt(self, ciphertext, checks) ==
    IF self.kind = "caesar" THEN caesar_decrypt(self.ikey, ciphertext, checks)
    ELSE IF self.kind = "vigenere" THEN vigenere_decrypt(self.key, ciphertext, checks)
    ELSE playfair_decrypt(self.matrix, ciphertext)

-----------------------------------------------------------------------------
(* Inputs of the model *)

Seqs(S, n) == UNION {[1..k -> S] : k \in 0..n}

\* chars of the input texts: A J s 1
TextChars == {65, 74, 115, 49}

\* chars of the Vigenere keys: b K 1 `
VigenereKeyChars == {98, 75, 49, 96}

\* chars of the Playfair keys: b K j 1
PlayfairKeyChars == {98, 75, 106, 49}

Texts == Seqs(TextChars, MaxLen)

VigenereKeys == Seqs(VigenereKeyChars, MaxKeyLen)

PlayfairKeys == Seqs(PlayfairKeyChars, MaxKeyLen)

\* the --key arguments of main: "3" "-1" "+7" "-" "k" "k1" "" "-2147483648" "2147483648"
KeyArgs ==
    { <<51>>, <<45, 49>>, <<43, 55>>, <<45>>, <<107>>, <<107, 49>>, <<>>,
      <<45, 50, 49, 52, 55, 52, 56, 51, 54, 52, 56>>,
      <<50, 49, 52, 55, 52, 56, 51, 54, 52, 56>> }

Algorithms == {"Caesar", "Vigenere", "Playfair"}

IntKeys == {I32Min, I32Min + 1, -27, -1, 0, 3, 13, 26, 27, I32Max}

UpperLetters == ch_A..ch_Z

Directions == {"Encrypt", "Decrypt"}

NoKey == [tag |-> "none", int |-> 0, text |-> <<>>]

\* no command line: the library is called directly
NoArgs == [algorithm |-> "none", direction |-> "none", key_arg |-> <<>>, key |-> NoKey,
           brute_force |-> FALSE, input_text |-> <<>>]

-----------------------------------------------------------------------------
(* Calls of the library, as the unit tests make them: a test constructs a  *)
(* cipher, calls one of its functions and, after encrypt, may hand the     *)
(* result to decrypt.  The ciphers are immutable and the calls are pure,   *)
(* so longer sequences of calls reach no other result.                     *)

Init ==
    /\ overflow_checks \in BOOLEAN
    /\ cipher = NoCipher
    /\ op = "none"
    /\ input = <<>>
    /\ output = <<>>
    /\ plain = NoText
    /\ pc = "lib"
    /\ args = NoArgs

NewCaesar ==
    \E key \in IntKeys :
        /\ pc = "lib"
        /\ op = "none"
        /\ cipher' = CaesarCipher(key)
        /\ op' = "new"
        /\ input' = <<>>
        /\ output' = <<>>
        /\ plain' = NoText
        /\ UNCHANGED <<overflow_checks, pc, args>>

NewVigenere ==
    \E key \in VigenereKeys :
        /\ pc = "lib"
        /\ op = "none"
        /\ cipher' = VigenereCipher(key)
        /\ op' = "new"
        /\ input' = key
        /\ output' = <<>>
        /\ plain' = NoText
        /\ UNCHANGED <<overflow_checks, pc, args>>

NewPlayfair ==
    \E key \in PlayfairKeys :
        /\ pc = "lib"
        /\ op = "none"
        /\ cipher' = PlayfairCipher_new(key)
        /\ op' = "new_playfair"
        /\ input' = key
        /\ output' = IF PlayfairCipher_new(key) = NoCipher THEN Panic ELSE <<>>
        /\ plain' = NoText
        /\ UNCHANGED <<overflow_checks, pc, args>>

Encrypt ==
    \E plaintext \in Texts :
        /\ pc = "lib"
        /\ op \in {"new", "new_playfair"}
        /\ cipher.kind # "none"
        /\ op' = "encrypt"
        /\ input' = plaintext
        /\ output' = Cipher_encrypt(cipher, plaintext, overflow_checks)
        /\ plain' = NoText
        /\ UNCHANGED <<overflow_checks, cipher, pc, args>>

Decrypt ==
    \E ciphertext \in Texts :
        /\ pc = "lib"
        /\ op \in {"new", "new_playfair"}
        /\ cipher.kind # "none"
        /\ op' = "decrypt"
        /\ input' = ciphertext
        /\ output' = Cipher_decrypt(cipher, ciphertext, overflow_checks)
        /\ plain' = NoText
        /\ UNCHANGED <<overflow_checks, cipher, pc, args>>

\* decrypt called on what encrypt has just returned
DecryptOutput ==
    /\ pc = "lib"
    /\ op = "encrypt"
    /\ output # Panic
    /\ op' = "decrypt"
    /\ input' = output
    /\ output' = Cipher_decrypt(cipher, output, overflow_checks)
    /\ plain' = input
    /\ UNCHANGED <<overflow_checks, cipher, pc, args>>

\* swap_chars called as test_swap_chars calls it
SwapChars ==
    \E a \in UpperLetters, b \in UpperLetters, direction \in Directions :
        /\ pc = "lib"
        /\ op = "new_playfair"
        /\ cipher.kind = "playfair"
        /\ op' = IF direction = "Encrypt" THEN "swap_chars_encrypt" ELSE "swap_chars_decrypt"
        /\ input' = <<a, b>>
        /\ output' = swap_chars(cipher.matrix, a, b, direction)
        /\ plain' = NoText
        /\ UNCHANGED <<overflow_checks, cipher, pc, args>>

\* swap_chars under the decrypt translation called on the pair that swap_chars
\* under the encrypt translation has just returned
SwapCharsBack ==
    /\ pc = "lib"
    /\ op = "swap_chars_encrypt"
    /\ cipher.kind = "playfair"
    /\ output # Panic
    /\ op' = "swap_chars_decrypt"
    /\ input' = output
    /\ output' = swap_chars(cipher.matrix, output[1], output[2], "Decrypt")
    /\ plain' = input
    /\ UNCHANGED <<overflow_checks, cipher, pc, args>>

\* get_char_indexes called as test_get_char_indexes calls it
GetCharIndexes ==
    \E target \in UpperLetters :
        /\ pc = "lib"
        /\ op = "new_playfair"
        /\ cipher.kind = "playfair"
        /\ op' = "get_char_indexes"
        /\ input' = <<target>>
        /\ output' = get_char_indexes(cipher.matrix, target)
        /\ plain' = NoText
        /\ UNCHANGED <<overflow_checks, cipher, pc, args>>

Next ==
    \/ NewCaesar
    \/ NewVigenere
    \/ NewPlayfair
    \/ Encrypt
    \/ Decrypt
    \/ DecryptOutput
    \/ SwapChars
    \/ SwapCharsBack
    \/ GetCharIndexes

Spec == Init /\ [][Next]_vars

-----------------------------------------------------------------------------
(* main.rs: one run of the program *)

NoInt == [ok |-> FALSE, value |-> 0]

\* the digits of str::parse::<i32>, accumulated with checked_mul and
\* checked_add (checked_sub after a '-'); NoInt is Err
RECURSIVE parse_digits(_, _, _)
parse_digits(digits, acc, positive) ==
    IF digits = <<>> THEN [ok |-> TRUE, value |-> acc]
    ELSE LET c == Head(digits)
             d == c - ch_0
         IN  IF c < ch_0 \/ c > ch_9 THEN NoInt
             ELSE IF positive
             THEN (IF acc > (I32Max - d) \div 10 THEN NoInt
                   ELSE parse_digits(Tail(digits), acc * 10 + d, positive))
             ELSE (IF acc < (I32Min + d + 9) \div 10 THEN NoInt
                   ELSE parse_digits(Tail(digits), acc * 10 - d, positive))

\* s.parse::<i32>()
parse_i32(s) ==
    IF s = <<>> THEN NoInt
    ELSE IF Head(s) = ch_plus \/ Head(s) = ch_minus
    THEN (IF Tail(s) = <<>> THEN NoInt
          ELSE parse_digits(Tail(s), 0, Head(s) = ch_plus))
    ELSE parse_digits(s, 0, TRUE)

\* KeyType::from_str
KeyType_from_str(s) ==
    IF parse_i32(s).ok
    THEN [tag |-> "Integer", int |-> parse_i32(s).value, text |-> <<>>]
    ELSE [tag |-> "Text", int |-> 0, text |-> s]

\* the check of main on --brute-force
brute_force_rejected(a) == a.brute_force /\ a.direction = "Encrypt"

\* key_accepted without the test of the kind of the key
key_accepted_any(algorithm, key) == TRUE

\* the kind of key the match of main accepts for the algorithm
key_accepted(algorithm, key) ==
    IF algorithm = "Caesar" THEN key.tag = "Integer" ELSE key.tag = "Text"

\* the cipher the match of main constructs
main_cipher(algorithm, key) ==
    IF algorithm = "Caesar" THEN CaesarCipher(key.int)
    ELSE IF algorithm = "Vigenere" THEN VigenereCipher(key.text)
    ELSE PlayfairCipher_new(key.text)

\* the process starts with its command line, not yet parsed
MainInit ==
    /\ overflow_checks \in BOOLEAN
    /\ cipher = NoCipher
    /\ op = "none"
    /\ input = <<>>
    /\ output = <<>>
    /\ plain = NoText
    /\ pc = "start"
    /\ \E algorithm \in Algorithms, direction \in Directions, key_arg \in KeyArgs,
          brute_force \in BOOLEAN, input_text \in Texts :
           args = [algorithm |-> algorithm, direction |-> direction,
                   key_arg |-> key_arg, key |-> NoKey, brute_force |-> brute_force,
                   input_text |-> input_text]

\* Args::parse(): the key goes through KeyType::from_str
main_parse ==
    /\ pc = "start"
    /\ args' = [args EXCEPT !.key = KeyType_from_str(args.key_arg)]
    /\ pc' = "check_brute_force"
    /\ UNCHANGED <<overflow_checks, cipher, op, input, output, plain>>

main_check_brute_force ==
    /\ pc = "check_brute_force"
    /\ pc' = IF brute_force_rejected(args) THEN "exit_1" ELSE "construct"
    /\ UNCHANGED <<overflow_checks, cipher, op, input, output, plain, args>>

main_construct ==
    /\ pc = "construct"
    /\ IF key_accepted(args.algorithm, args.key)
       THEN /\ cipher' = main_cipher(args.algorithm, args.key)
            /\ pc' = IF main_cipher(args.algorithm, args.key) = NoCipher
                     THEN "panic" ELSE "call"
       ELSE /\ cipher' = cipher
            /\ pc' = "panic"
    /\ UNCHANGED <<overflow_checks, op, input, output, plain, args>>

main_call ==
    /\ pc = "call"
    /\ op' = IF args.direction = "Encrypt" THEN "encrypt" ELSE "decrypt"
    /\ input' = args.input_text
    /\ output' = IF args.direction = "Encrypt"
                 THEN Cipher_encrypt(cipher, args.input_text, overflow_checks)
                 ELSE Cipher_decrypt(cipher, args.input_text, overflow_checks)
    /\ pc' = IF output' = Panic THEN "panic" ELSE "print"
    /\ UNCHANGED <<overflow_checks, cipher, plain, args>>

main_print ==
    /\ pc = "print"
    /\ pc' = "exit_0"
    /\ UNCHANGED <<overflow_checks, cipher, op, input, output, plain, args>>

MainNext ==
    \/ main_parse
    \/ main_check_brute_force
    \/ main_construct
    \/ main_call
    \/ main_print

MainSpec == MainInit /\ [][MainNext]_vars

-----------------------------------------------------------------------------
(* Properties *)

AllLetters(text) == \A i \in 1..Len(text) : is_ascii_alphabetic(text[i])

IsEncryptOrDecrypt == op \in {"encrypt", "decrypt"}

\* C1: Caesar round trip.  For every text x and every i32 key, decrypt called on
\* the result of encrypt(x) returns exactly x.
CaesarRoundTrip ==
    (cipher.kind = "caesar" /\ op = "decrypt" /\ plain # NoText) => output = plain

\* C2: Vigenere round trip.  For every non-empty key and every text x of ASCII
\* letters, encrypt(x) returns a text and decrypt called on it returns exactly x.
VigenereRoundTrip ==
    (cipher.kind = "vigenere" /\ cipher.key # <<>>) =>
        /\ (op = "encrypt" /\ AllLetters(input)) => output # Panic
        /\ (op = "decrypt" /\ plain # NoText /\ AllLetters(plain)) => output = plain

\* C3: Playfair round trip.  For every key and every text x of ASCII letters,
\* encrypt(x) returns a text and decrypt called on it returns x, or x followed by
\* the one padding character when the length of x is odd.
PlayfairRoundTrip ==
    cipher.kind = "playfair" =>
        /\ (op = "encrypt" /\ AllLetters(input)) => output # Panic
        /\ (op = "decrypt" /\ plain # NoText /\ AllLetters(plain)) =>
               IF Len(plain) % 2 = 0
               THEN output = plain
               ELSE output \in {Append(plain, ch_x), Append(plain, ch_X)}

\* C4: Playfair matrix invariant.  For every key passed to PlayfairCipher::new the
\* construction completes, the matrix holds each of the 25 letters A-Z without J
\* exactly once, the cleaned key first in row-major order and then the remaining
\* letters in alphabetical order.
PlayfairMatrixInvariant ==
    op = "new_playfair" =>
        /\ output # Panic
        /\ cipher.kind = "playfair"
        /\ LET cell(n) == cipher.matrix[n \div 5][n % 5]
               k == Len(cipher.key)
           IN  /\ {cell(n) : n \in 0..24} = UpperLetters \ {ch_J}
               /\ \A n \in 0..24, m \in 0..24 : cell(n) = cell(m) => n = m
               /\ \A n \in 0..24 : n < k => cell(n) = cipher.key[n + 1]
               /\ \A n \in 0..24, m \in 0..24 : (k <= n /\ n < m) => cell(n) < cell(m)

AllLowercase(text) == \A i \in 1..Len(text) : is_ascii_lowercase(text[i])

\* a cipher whose key is in the domain of its algorithm: any i32 for Caesar, a
\* non-empty key of letters for Vigenere, a constructed matrix for Playfair
ValidKey ==
    cipher.kind = "vigenere" => (cipher.key # <<>> /\ AllLowercase(cipher.key))

\* C5: no invalid-input error path.  encrypt and decrypt of each of the three
\* ciphers return a text for every input text (empty, with digits, of mixed case)
\* and every integer shift, and never panic.
NoInvalidInputPanic == (IsEncryptOrDecrypt /\ ValidKey) => output # Panic

\* C6: Playfair letter lookup.  On a constructed cipher get_char_indexes(c)
\* succeeds for every upper-case letter c and returns the coordinate of the cell
\* that holds c, the coordinate of I when c is J.
LetterLookup ==
    op = "get_char_indexes" =>
        /\ output # NoIdx
        /\ cipher.matrix[output[1]][output[2]] = (IF input[1] = ch_J THEN ch_I ELSE input[1])

\* the coordinate of a letter of the matrix
CellOf(matrix, letter) ==
    CHOOSE rc \in (0..4) \X (0..4) : matrix[rc[1]][rc[2]] = letter

\* C7: Playfair pair transformation under the encrypt translation.  For every pair
\* of matrix letters, an identical pair being first changed to (letter, X):
\* letters of one row become the letters to the right of each, wrapping modulo 5;
\* otherwise letters of one column become the letters below each, wrapping
\* modulo 5; otherwise each becomes the letter of its own row and the column of
\* the other.
SwapCharsEncryptRule ==
    (op = "swap_chars_encrypt" /\ input[1] # ch_J /\ input[2] # ch_J) =>
        LET m == cipher.matrix
            a == CellOf(m, input[1])
            b == CellOf(m, IF input[2] = input[1] THEN ch_X ELSE input[2])
        IN  output =
                IF a[1] = b[1]
                THEN <<m[a[1]][(a[2] + 1) % 5], m[b[1]][(b[2] + 1) % 5]>>
                ELSE IF a[2] = b[2]
                THEN <<m[(a[1] + 1) % 5][a[2]], m[(b[1] + 1) % 5][b[2]]>>
                ELSE <<m[a[1]][b[2]], m[b[1]][a[2]]>>

\* C7 witness: a pair of distinct letters of one row, one of them in the last
\* column, has been swapped under the encrypt translation.
SwapCharsEncryptRowWrap ==
    /\ op = "swap_chars_encrypt"
    /\ input[1] # ch_J /\ input[2] # ch_J /\ input[1] # input[2]
    /\ CellOf(cipher.matrix, input[1])[1] = CellOf(cipher.matrix, input[2])[1]
    /\ CellOf(cipher.matrix, input[1])[2] = 4
    /\ output # Panic

\* C8: Playfair padding.  For every input of n ASCII letters encrypt returns a
\* text of length n when n is even and n + 1 when n is odd; when n is odd the
\* last char of the output is the substitution of the padding x paired with the
\* last input letter.
PlayfairPadding ==
    (cipher.kind = "playfair" /\ op = "encrypt" /\ AllLetters(input)) =>
        LET n == Len(input)
        IN  /\ output # Panic
            /\ Len(output) = IF n % 2 = 0 THEN n ELSE n + 1
            /\ Len(output) >= n /\ Len(output) % 2 = 0
            /\ n % 2 = 1 =>
                   to_ascii_uppercase(output[n + 1]) =
                       swap_chars(cipher.matrix, to_ascii_uppercase(input[n]),
                                  ch_X, "Encrypt")[2]

\* C8 witness: a text of three letters has been encrypted by a Playfair cipher.
PlayfairOddEncrypted ==
    /\ cipher.kind = "playfair" /\ op = "encrypt"
    /\ Len(input) = 3 /\ AllLetters(input)
    /\ Len(output) = 4

\* the command line names a combination main has to reject
RejectedArgs ==
    \/ args.brute_force /\ args.direction = "Encrypt"
    \/ args.algorithm = "Caesar" /\ args.key.tag # "Integer"
    \/ args.algorithm \in {"Vigenere", "Playfair"} /\ args.key.tag # "Text"

\* C9: the validation of main precedes the ciphers.  In every run, when brute
\* force comes with the encrypt direction or the kind of the key does not match
\* the algorithm, no encrypt or decrypt is called and the run ends with an error
\* (it is at a check still to be made, or has exited with status 1 or panicked);
\* encrypt and decrypt have been called only when both checks have passed.
ValidationPrecedesCore ==
    /\ IsEncryptOrDecrypt => (pc \in {"print", "exit_0", "panic"} /\ ~RejectedArgs)
    /\ (pc # "start" /\ RejectedArgs) =>
           /\ ~IsEncryptOrDecrypt
           /\ pc \in {"check_brute_force", "construct", "exit_1", "panic"}

\* C9 witness: a run given a text key for the Caesar cipher has ended in a panic
\* without a call of encrypt or decrypt.
KeyKindRejected ==
    /\ pc = "panic"
    /\ args.algorithm = "Caesar" /\ args.key.tag = "Text"
    /\ ~args.brute_force
    /\ op = "none"

\* the letter c of either case moved by n places (n may be negative), case kept
Shifted(c, n) ==
    LET base == IF is_ascii_lowercase(c) THEN ch_a ELSE ch_A
    IN  base + ((c - base + n) % 26)

SwapCharsDecryptInverts ==
    (op = "swap_chars_decrypt" /\ plain # NoText
        /\ plain[1] # ch_J /\ plain[2] # ch_J /\ plain[1] # plain[2]) =>
        output = plain

\* C11 witness: a pair of distinct letters of one column, the first in the first
\* row, has been swapped under the encrypt translation and the result swapped
\* back under the decrypt translation, which wraps from the first row to the last.
SwapCharsColumnWrapUndone ==
    /\ op = "swap_chars_decrypt" /\ plain # NoText
    /\ plain[1] # ch_J /\ plain[2] # ch_J /\ plain[1] # plain[2]
    /\ CellOf(cipher.matrix, plain[1])[2] = CellOf(cipher.matrix, plain[2])[2]
    /\ CellOf(cipher.matrix, plain[2])[1] = 4
    /\ CellOf(cipher.matrix, input[2])[1] = 0
    /\ output # Panic

====
